---- MODULE Spec2Model ----
(***************************************************************************)
(* A model of the experiment pipeline: the experiment runner with resume   *)
(* support (src/src/run_experiments.py, src/src/utils.py), the model       *)
(* client with rate limiting and bounded retry (src/src/llm_client.py),    *)
(* the answer extractor and the parse stage (src/src/parsing.py) and the   *)
(* answer scorer (src/src/scoring.py).                                     *)
(*                                                                         *)
(* Text is modelled as a sequence of one-character strings.  Time is       *)
(* modelled in whole ticks; the client's clock reading minus its           *)
(* _last_call_time is kept as one saturating value.                        *)
(***************************************************************************)
EXTENDS Integers, Sequences, FiniteSets, TLC

(***************************************************************************)
(* Bounds of the model.                                                    *)
(***************************************************************************)
MaxQuestions == 2
MaxListLen == 2
MaxRuns == 2
MaxGrid == 3
MaxRetry == 2
MaxLatency == 1
MinIntervalTicks == 2
BackoffTicks == 1
MaxRawLines == 2
MaxSegments == 4
MaxPad == 1


VARIABLES
    cfg,          \* the configuration and dataset the invocations load
    store,        \* the raw output file: a sequence of JSON lines
    pc,           \* where the runner process is
    completed,    \* run_experiments: completed (the resume index)
    work,         \* run_experiments: work
    idx,          \* position of the for loop in work (1-based)
    errors,       \* run_experiments: errors
    raw_output,   \* run_experiments: raw_output of the item in hand
    record,       \* run_experiments: record of the item in hand
    attempt,      \* LLMClient.generate: attempt
    last_error,   \* LLMClient.generate: last_error
    elapsed,      \* time.time() - self._last_call_time, saturating
    start_len,    \* history: length of the store when the invocation started
    calls,        \* history: client.generate calls begun in this invocation
    finished,     \* history: generate calls ended (returned or raised) in it
    outcomes,     \* history: endpoint outcomes of the generate call in hand
    waits,        \* history: backoff waits of the generate call in hand
    since_req,    \* history: time since this client's last request, saturating
    last_gap,     \* history: separation of this client's last two requests
    killed,       \* history: the process was killed at some point
    waited,       \* history: what the last _wait_for_rate_limit slept
    init_store,   \* history: the store before the first invocation
    parsed_store, \* the parsed output file: a sequence of JSON lines
    in_text,      \* input of the function under study (text)
    in_truth,     \* input of score_answer: ground_truth
    in_type,      \* input of score_answer: answer_type
    out,          \* result of the function under study
    called        \* the function or stage under study has been run

runnerVars == <<cfg, store, pc, completed, work, idx, errors, raw_output, record,
                attempt, last_error, elapsed, start_len, calls, finished,
                outcomes, waits, since_req, last_gap, killed, waited, init_store>>
funcVars == <<in_text, in_truth, in_type, out, called>>
vars == <<cfg, store, pc, completed, work, idx, errors, raw_output, record,
          attempt, last_error, elapsed, start_len, calls, finished,
          outcomes, waits, since_req, last_gap, killed, waited, init_store,
          parsed_store, in_text, in_truth, in_type, out, called>>

(***************************************************************************)
(* Small helpers.                                                          *)
(***************************************************************************)
Range(s) == {s[k] : k \in 1..Len(s)}

Min2(a, b) == IF a < b THEN a ELSE b

RECURSIVE Pow2(_)
Pow2(n) == IF n <= 0 THEN 1 ELSE 2 * Pow2(n - 1)

RECURSIVE FlattenSeq(_)
FlattenSeq(ss) == IF Len(ss) = 0 THEN <<>> ELSE Head(ss) \o FlattenSeq(Tail(ss))

(***************************************************************************)
(* Configurations.  A list of prompt names or of temperatures is any       *)
(* non-empty list, repeated entries included; lists are taken up to the    *)
(* renaming of their entries (an entry is either an earlier one or the     *)
(* next fresh one).  Question ids are unique.                              *)
(***************************************************************************)
MaxOf(s, n) == IF n = 0 THEN 0
               ELSE CHOOSE m \in {s[k] : k \in 1..n} : \A k \in 1..n : s[k] <= m

ConfigLists ==
    {s \in UNION {[1..n -> 1..MaxListLen] : n \in 1..MaxListLen} :
        \A k \in 1..Len(s) : s[k] <= MaxOf(s, k - 1) + 1}

Datasets == {[k \in 1..n |-> k] : n \in 1..MaxQuestions}

ModelName == "gemini"

Configs ==
    {c \in [dataset : Datasets, prompts : ConfigLists, temperatures : ConfigLists,
            num_runs : 1..MaxRuns, retry_max : 0..MaxRetry] :
        Len(c.dataset) * Len(c.prompts) * Len(c.temperatures) * c.num_runs <= MaxGrid}

(***************************************************************************)
(* utils.py: the JSONL file.  A line is what json.dumps writes for a       *)
(* record: its values in key order; load_jsonl reads each line back.       *)
(***************************************************************************)
Dumps(rec) == <<rec.question_id, rec.prompt_name, rec.temperature, rec.run_index,
                rec.model, rec.prompt_text, rec.raw_output>>

Loads(line) == [question_id |-> line[1], prompt_name |-> line[2],
                temperature |-> line[3], run_index |-> line[4],
                model |-> line[5], prompt_text |-> line[6], raw_output |-> line[7]]

append_overwrites(file, rec) == <<Dumps(rec)>>

append_jsonl(file, rec) == Append(file, Dumps(rec))

load_jsonl(file) == [k \in 1..Len(file) |-> Loads(file[k])]

RecKey(rec) == <<rec.question_id, rec.prompt_name, rec.temperature, rec.run_index>>

RECURSIVE completed_skip_first(_)
completed_skip_first(file) ==
    IF Len(file) <= 1 THEN {}
    ELSE {RecKey(Loads(file[Len(file)]))} \cup completed_skip_first(SubSeq(file, 1, Len(file) - 1))

completed_without_errors(file) ==
    {RecKey(Loads(file[k])) :
        k \in {j \in 1..Len(file) :
                  \/ Len(Loads(file[j]).raw_output) < 7
                  \/ SubSeq(Loads(file[j]).raw_output, 1, 7) # <<"E", "R", "R", "O", "R", ":", " ">>}}

RECURSIVE get_completed_keys(_)
get_completed_keys(file) ==
    IF Len(file) = 0 THEN {}
    ELSE LET recs == load_jsonl(file)
         IN  get_completed_keys(SubSeq(file, 1, Len(file) - 1)) \cup {RecKey(recs[Len(recs)])}

build_prompt(prompt_name, qid) == <<prompt_name, qid, "suffix">>

(***************************************************************************)
(* run_experiments: the work list.  The four nested loops enumerate the    *)
(* grid question-outer, run-index-inner; a position is kept when its key   *)
(* is not in the resume index.                                             *)
(***************************************************************************)
GridSeq(c) ==
    LET nq == Len(c.dataset)
        np == Len(c.prompts)
        nt == Len(c.temperatures)
        nr == c.num_runs
    IN  [k \in 1..(nq * np * nt * nr) |->
            <<c.dataset[((k - 1) \div (np * nt * nr)) + 1],
              c.prompts[(((k - 1) \div (nt * nr)) % np) + 1],
              c.temperatures[(((k - 1) \div nr) % nt) + 1],
              ((k - 1) % nr) + 1>>]

RECURSIVE FilterSeq(_, _)
FilterSeq(s, done) ==
    IF Len(s) = 0 THEN <<>>
    ELSE IF Head(s) \in done THEN FilterSeq(Tail(s), done)
         ELSE <<Head(s)>> \o FilterSeq(Tail(s), done)

build_work_no_skip(c, done) == GridSeq(c)

build_work(c, done) == FilterSeq(GridSeq(c), done)

(***************************************************************************)
(* llm_client.py.  An endpoint failure is modelled by the text str(e) of   *)
(* its exception; a response by its text, or no text at all.               *)
(***************************************************************************)
NoneText == <<"N", "o", "n", "e">>
Errors == {<<"e", "1">>, <<"e", "2">>}
Responses == {[has_text |-> TRUE, text |-> <<"A", "N", "S", "W", "E", "R", ":", " ", "1">>],
              [has_text |-> FALSE, text |-> <<>>]}

DigitChars == <<"0", "1", "2", "3", "4", "5", "6", "7", "8", "9">>

RECURSIVE IntText(_)
IntText(n) == IF n < 10 THEN <<DigitChars[n + 1]>>
              ELSE IntText(n \div 10) \o <<DigitChars[(n % 10) + 1]>>

min_interval == MinIntervalTicks

Sat(t) == Min2(t, min_interval)

rate_limit_no_wait(e) == 0

rate_limit_wait(e) == IF e < min_interval THEN min_interval - e ELSE 0

backoff_wait(k) == BackoffTicks * Pow2(k - 1)

more_attempts_off_by_one(k, c) == k <= c.retry_max

more_attempts(k, c) == k < c.retry_max

response_text(r) == IF r.has_text /\ r.text # <<>> THEN r.text ELSE <<>>

RuntimeErrorText(c, err) ==
    <<"A", "P", "I", " ", "c", "a", "l", "l", " ", "f", "a", "i", "l", "e", "d", " ", "a", "f", "t", "e", "r", " ">>
    \o IntText(c.retry_max)
    \o <<" ", "r", "e", "t", "r", "i", "e", "s", ":", " ">>
    \o err

ErrorPrefix == <<"E", "R", "R", "O", "R", ":", " ">>

ErrorSentinel(exc) == ErrorPrefix \o exc

IsSentinel(raw) == Len(raw) >= Len(ErrorPrefix) /\ SubSeq(raw, 1, Len(ErrorPrefix)) = ErrorPrefix

(***************************************************************************)
(* Text.  A text is a sequence of one-character strings; an optional text  *)
(* (Python's Optional[str]) is a record with a flag.  Only ASCII letters   *)
(* change under lower(), and the white space characters are the four       *)
(* below.                                                                  *)
(***************************************************************************)
Absent == [some |-> FALSE, text |-> <<>>]

Some(t) == [some |-> TRUE, text |-> t]

Whitespace == {" ", "\t", "\n", "\r"}

(* The grave accent, which a string of the module cannot hold.             *)
BackQuote == "grave"

UpperLetters == <<"A", "B", "C", "D", "E", "F", "G", "H", "I", "J", "K", "L", "M",
                  "N", "O", "P", "Q", "R", "S", "T", "U", "V", "W", "X", "Y", "Z">>

LowerLetters == <<"a", "b", "c", "d", "e", "f", "g", "h", "i", "j", "k", "l", "m",
                  "n", "o", "p", "q", "r", "s", "t", "u", "v", "w", "x", "y", "z">>

Digits == {"0", "1", "2", "3", "4", "5", "6", "7", "8", "9"}

LowerChar(c) ==
    IF \E k \in 1..26 : UpperLetters[k] = c
    THEN LowerLetters[CHOOSE k \in 1..26 : UpperLetters[k] = c]
    ELSE c

Lower(t) == [k \in 1..Len(t) |-> LowerChar(t[k])]

RECURSIVE LStripSet(_, _)
LStripSet(t, S) == IF Len(t) > 0 /\ t[1] \in S THEN LStripSet(Tail(t), S) ELSE t

RECURSIVE RStripSet(_, _)
RStripSet(t, S) ==
    IF Len(t) > 0 /\ t[Len(t)] \in S THEN RStripSet(SubSeq(t, 1, Len(t) - 1), S) ELSE t

StripSet(t, S) == RStripSet(LStripSet(t, S), S)

Strip(t) == StripSet(t, Whitespace)

RECURSIVE RemoveAll(_, _)
RemoveAll(t, S) ==
    IF Len(t) = 0 THEN <<>>
    ELSE IF t[1] \in S THEN RemoveAll(Tail(t), S)
         ELSE <<t[1]>> \o RemoveAll(Tail(t), S)

StartsWith(t, p) == Len(t) >= Len(p) /\ SubSeq(t, 1, Len(p)) = p

EndsWith(t, p) == Len(t) >= Len(p) /\ SubSeq(t, Len(t) - Len(p) + 1, Len(t)) = p

(* The first position >= p of t whose character is not in S; Len(t) + 1    *)
(* when there is none.                                                     *)
RECURSIVE SkipSet(_, _, _)
SkipSet(t, p, S) == IF p <= Len(t) /\ t[p] \in S THEN SkipSet(t, p + 1, S) ELSE p

(* The first position >= p of t whose character is in S; Len(t) + 1 when   *)
(* there is none.                                                          *)
RECURSIVE FindSet(_, _, _)
FindSet(t, p, S) == IF p <= Len(t) /\ t[p] \notin S THEN FindSet(t, p + 1, S) ELSE p

(* A literal matched at position p, letter case ignored (re.IGNORECASE).   *)
LiteralAt(t, p, lit) ==
    /\ p + Len(lit) - 1 <= Len(t)
    /\ Lower(SubSeq(t, p, p + Len(lit) - 1)) = Lower(lit)

(***************************************************************************)
(* parsing.py: parse_answer.                                               *)
(***************************************************************************)
AnswerMarker == <<"A", "N", "S", "W", "E", "R", ":">>

(* Where the group of ANSWER:\s*(.+) starts for a marker that ends before  *)
(* position p: at the first character after the white space, or, when the  *)
(* white space runs to the end of the text, at the last character of it    *)
(* that is not a line break (\s* gives characters back until . matches);   *)
(* 0 when .+ cannot match.                                                 *)
AnswerGroupStart(t, p) ==
    LET w == SkipSet(t, p, Whitespace)
        back == {k \in p..Len(t) : t[k] # "\n"}
    IN  IF w <= Len(t) THEN w
        ELSE IF back = {} THEN 0
        ELSE CHOOSE k \in back : \A j \in back : j <= k

(* The last position of the group that starts at g: . matches anything but *)
(* a line break, greedily.                                                 *)
GroupEnd(t, g) == FindSet(t, g, {"\n"}) - 1

(* re.findall(r"ANSWER:\s*(.+)", t, re.IGNORECASE) from position p on: the *)
(* groups of the successive non-overlapping matches.                       *)
RECURSIVE findall_answer(_, _)
findall_answer(t, p) ==
    IF p > Len(t) THEN <<>>
    ELSE IF LiteralAt(t, p, AnswerMarker) /\ AnswerGroupStart(t, p + Len(AnswerMarker)) > 0
         THEN LET g == AnswerGroupStart(t, p + Len(AnswerMarker))
              IN  <<SubSeq(t, g, GroupEnd(t, g))>> \o findall_answer(t, GroupEnd(t, g) + 1)
         ELSE findall_answer(t, p + 1)

UnitWords ==
    {<<"m", "i", "l", "e", "s">>,
     <<"m", "p", "h">>,
     <<"k", "m">>,
     <<"k", "m", "/", "h">>,
     <<"m", "e", "t", "e", "r", "s">>,
     <<"m">>,
     <<"c", "m">>,
     <<"f", "e", "e", "t">>,
     <<"f", "t">>,
     <<"i", "n", "c", "h", "e", "s">>,
     <<"i", "n">>,
     <<"l", "i", "t", "e", "r", "s">>,
     <<"g", "a", "l", "l", "o", "n", "s">>,
     <<"g", "a", "l">>,
     <<"h", "o", "u", "r", "s">>,
     <<"h", "r", "s">>,
     <<"m", "i", "n", "u", "t", "e", "s">>,
     <<"m", "i", "n", "s">>,
     <<"s", "e", "c", "o", "n", "d", "s">>,
     <<"s", "e", "c", "s">>,
     <<"d", "a", "y", "s">>,
     <<"w", "e", "e", "k", "s">>,
     <<"m", "o", "n", "t", "h", "s">>,
     <<"y", "e", "a", "r", "s">>,
     <<"d", "o", "l", "l", "a", "r", "s">>,
     <<"c", "e", "n", "t", "s">>,
     <<"p", "e", "r", "c", "e", "n", "t">>,
     <<"%">>,
     <<"k", "g">>,
     <<"l", "b", "s">>,
     <<"p", "o", "u", "n", "d", "s">>,
     <<"o", "u", "n", "c", "e", "s">>,
     <<"o", "z">>,
     <<"c", "u", "p", "s">>,
     <<"d", "e", "g", "r", "e", "e", "s">>,
     <<"p", "a", "c", "k", "s">>,
     <<"b", "o", "x", "e", "s">>,
     <<"s", "l", "i", "c", "e", "s">>,
     <<"c", "o", "o", "k", "i", "e", "s">>,
     <<"s", "t", "i", "c", "k", "e", "r", "s">>,
     <<"p", "e", "n", "c", "i", "l", "s">>,
     <<"w", "i", "d", "g", "e", "t", "s">>,
     <<"m", "u", "f", "f", "i", "n", "s">>,
     <<"r", "o", "s", "e", "s">>,
     <<"d", "e", "s", "k", "s">>,
     <<"a", "p", "p", "l", "e", "s">>,
     <<"b", "a", "n", "a", "n", "a", "s">>,
     <<"t", "i", "c", "k", "e", "t", "s">>,
     <<"c", "r", "a", "y", "o", "n", "s">>,
     <<"s", "h", "i", "r", "t", "s">>,
     <<"e", "m", "p", "l", "o", "y", "e", "e", "s">>,
     <<"g", "a", "m", "e", "s">>,
     <<"a", "r", "r", "a", "n", "g", "e", "m", "e", "n", "t", "s">>,
     <<"w", "e", "i", "g", "h", "i", "n", "g", "s">>,
     <<"p", "o", "u", "r", "i", "n", "g", "s">>,
     <<"s", "w", "i", "t", "c", "h", "e", "s">>}

NumberChars == Digits \cup {".", "/", "-"}

(* re.match of ^([\d.\/\-]+)\s+(unit)\.?$ : the number part when the text  *)
(* is a number, white space, and a unit word with an optional period.      *)
strip_unit(t) ==
    LET n == SkipSet(t, 1, NumberChars) - 1
        u == SkipSet(t, n + 1, Whitespace)
        rest == SubSeq(t, u, Len(t))
    IN  IF /\ n >= 1
           /\ u > n + 1
           /\ \/ rest \in UnitWords
              \/ EndsWith(rest, <<".">>) /\ SubSeq(rest, 1, Len(rest) - 1) \in UnitWords
        THEN Strip(SubSeq(t, 1, n))
        ELSE t

strip_period(t) == IF EndsWith(t, <<".">>) THEN Strip(SubSeq(t, 1, Len(t) - 1)) ELSE t

strip_dollar(t) == IF StartsWith(t, <<"$">>) THEN Strip(SubSeq(t, 2, Len(t))) ELSE t

(* Lines 27-45 of parse_answer: what is done to the captured group.        *)
normalize_answer(group) ==
    LET a1 == Strip(group)
        a2 == StripSet(RemoveAll(Strip(Lower(a1)), {","}), {"\"", "'", BackQuote, " "})
        a3 == strip_unit(strip_dollar(strip_period(a2)))
    IN  IF a3 = <<>> THEN Absent ELSE Some(a3)

pick_last(matches) == matches[Len(matches)]

parse_answer(raw) ==
    IF ~raw.some \/ raw.text = <<>> THEN Absent
    ELSE LET matches == findall_answer(raw.text, 1)
         IN  IF matches = <<>> THEN Absent
             ELSE normalize_answer(pick_last(matches))

(***************************************************************************)
(* parsing.py: parse_confidence.                                           *)
(***************************************************************************)
ConfidenceMarker == <<"C", "O", "N", "F", "I", "D", "E", "N", "C", "E", ":">>

NoValue == [some |-> FALSE, value |-> 0]

DigitValue(c) == CHOOSE d \in 0..9 : DigitChars[d + 1] = c

RECURSIVE IntValue(_)
IntValue(ds) ==
    IF Len(ds) = 0 THEN 0
    ELSE 10 * IntValue(SubSeq(ds, 1, Len(ds) - 1)) + DigitValue(ds[Len(ds)])

(* re.findall(r"CONFIDENCE:\s*(\d+)", t, re.IGNORECASE) from position p.   *)
RECURSIVE findall_confidence(_, _)
findall_confidence(t, p) ==
    IF p > Len(t) THEN <<>>
    ELSE LET w == SkipSet(t, p + Len(ConfidenceMarker), Whitespace)
             e == SkipSet(t, w, Digits)
         IN  IF LiteralAt(t, p, ConfidenceMarker) /\ e > w
             THEN <<SubSeq(t, w, e - 1)>> \o findall_confidence(t, e)
             ELSE findall_confidence(t, p + 1)

parse_confidence(raw) ==
    IF ~raw.some \/ raw.text = <<>> THEN NoValue
    ELSE LET matches == findall_confidence(raw.text, 1)
         IN  IF matches = <<>> THEN NoValue
             ELSE LET v == IntValue(matches[Len(matches)])
                  IN  [some |-> TRUE, value |-> IF v > 100 THEN 100 ELSE IF v < 0 THEN 0 ELSE v]

(***************************************************************************)
(* parsing.py: parse_all_outputs.  A line of the parsed file holds the     *)
(* nine values of a parsed record in key order.                            *)
(***************************************************************************)
parsed_line(rec) ==
    LET raw == rec.raw_output
        answer == parse_answer(Some(raw))
        confidence == parse_confidence(Some(raw))
    IN  <<rec.question_id, rec.prompt_name, rec.temperature, rec.run_index,
          rec.model, raw, answer, confidence, answer.some>>

(* The file output_path after parse_all_outputs(generations_path,          *)
(* output_path): the early return on no records comes before the file is   *)
(* cleared.                                                                *)
parse_all_outputs(raw_file, parsed_file) ==
    IF Len(load_jsonl(raw_file)) = 0 THEN parsed_file
    ELSE [k \in 1..Len(raw_file) |-> parsed_line(load_jsonl(raw_file)[k])]

(***************************************************************************)
(* scoring.py.  A float is modelled exactly: a finite value is a fraction  *)
(* num / den with den > 0, the other values are the infinities and nan.    *)
(* float() is modelled for an optional sign followed by digits with at     *)
(* most one point, or by inf, infinity or nan; texts with an exponent are  *)
(* not among the inputs.                                                   *)
(***************************************************************************)
NotFloat == [ok |-> FALSE, kind |-> "none", num |-> 0, den |-> 1]

Finite(n, d) == [ok |-> TRUE, kind |-> "fin", num |-> n, den |-> d]

Infinite(sign) == [ok |-> TRUE, kind |-> "inf", num |-> sign, den |-> 1]

NaN == [ok |-> TRUE, kind |-> "nan", num |-> 0, den |-> 1]

RECURSIVE Pow10(_)
Pow10(n) == IF n <= 0 THEN 1 ELSE 10 * Pow10(n - 1)

(* Digits, with single underscores between digits allowed.                 *)
DigitPart(p) ==
    \A k \in 1..Len(p) :
        \/ p[k] \in Digits
        \/ p[k] = "_" /\ 1 < k /\ k < Len(p) /\ p[k - 1] \in Digits /\ p[k + 1] \in Digits

float(t) ==
    LET s == Strip(t)
        signed == Len(s) > 0 /\ s[1] \in {"+", "-"}
        sign == IF signed /\ s[1] = "-" THEN -1 ELSE 1
        body == IF signed THEN Tail(s) ELSE s
        dot == FindSet(body, 1, {"."})
        ip == SubSeq(body, 1, dot - 1)
        fp == SubSeq(body, dot + 1, Len(body))
    IN  IF Lower(body) \in {<<"i", "n", "f">>, <<"i", "n", "f", "i", "n", "i", "t", "y">>} THEN Infinite(sign)
        ELSE IF Lower(body) = <<"n", "a", "n">> THEN NaN
        ELSE IF /\ Len(ip) + Len(fp) >= 1
                /\ DigitPart(ip)
                /\ DigitPart(fp)
             THEN LET i == RemoveAll(ip, {"_"})
                      f == RemoveAll(fp, {"_"})
                  IN  Finite(sign * (IntValue(i) * Pow10(Len(f)) + IntValue(f)), Pow10(Len(f)))
             ELSE NotFloat

(* a / b for floats; a zero divisor raises ZeroDivisionError.              *)
float_div(a, b) ==
    IF ~a.ok \/ ~b.ok THEN NotFloat
    ELSE IF b.kind = "fin" /\ b.num = 0 THEN NotFloat
    ELSE IF a.kind = "nan" \/ b.kind = "nan" THEN NaN
    ELSE IF a.kind = "inf" /\ b.kind = "inf" THEN NaN
    ELSE IF a.kind = "inf" THEN Infinite(IF b.num < 0 THEN -a.num ELSE a.num)
    ELSE IF b.kind = "inf" THEN Finite(0, 1)
    ELSE IF b.num < 0 THEN Finite(-(a.num * b.den), a.den * (-b.num))
    ELSE Finite(a.num * b.den, a.den * b.num)

Abs(n) == IF n < 0 THEN -n ELSE n

(* abs(a - b) < 0.005                                                      *)
float_close(a, b) ==
    /\ a.kind = "fin"
    /\ b.kind = "fin"
    /\ Abs(a.num * b.den - b.num * a.den) < a.den * b.den
    /\ 200 * Abs(a.num * b.den - b.num * a.den) < a.den * b.den

CountOf(t, c) == Cardinality({k \in 1..Len(t) : t[k] = c})

normalize_numeric(value) ==
    LET cleaned == RemoveAll(Strip(value), {",", "$", "%"})
        slash == FindSet(cleaned, 1, {"/"})
    IN  IF CountOf(cleaned, "/") = 1
        THEN float_div(float(Strip(SubSeq(cleaned, 1, slash - 1))),
                       float(Strip(SubSeq(cleaned, slash + 1, Len(cleaned)))))
        ELSE float(cleaned)

WordChars == Digits \cup Range(UpperLetters) \cup Range(LowerLetters) \cup {"_"}

(* re.sub(r"\s+", " ", t)                                                  *)
RECURSIVE collapse_spaces(_)
collapse_spaces(t) ==
    IF Len(t) = 0 THEN <<>>
    ELSE IF t[1] \in Whitespace
         THEN <<" ">> \o collapse_spaces(LStripSet(t, Whitespace))
         ELSE <<t[1]>> \o collapse_spaces(Tail(t))

RECURSIVE KeepOnly(_, _)
KeepOnly(t, S) ==
    IF Len(t) = 0 THEN <<>>
    ELSE IF t[1] \in S THEN <<t[1]>> \o KeepOnly(Tail(t), S)
         ELSE KeepOnly(Tail(t), S)

normalize_text(value) ==
    Strip(collapse_spaces(KeepOnly(Strip(Lower(value)), WordChars \cup Whitespace \cup {"/", ":"})))

RefusalPhrases == {<<"u", "n", "k", "n", "o", "w", "n">>, <<"i", " ", "d", "o", "n", "'", "t", " ", "k", "n", "o", "w">>, <<"c", "a", "n", "n", "o", "t", " ", "d", "e", "t", "e", "r", "m", "i", "n", "e">>}

is_refusal_by_prefix(normalized) == \E p \in RefusalPhrases : StartsWith(normalized, p)

is_refusal(normalized) == normalized \in RefusalPhrases

Score(correct, unknown, match) ==
    [is_correct |-> correct, is_unknown |-> unknown, match_type |-> match]

score_answer_no_fallback(parsed_answer, ground_truth, answer_type) ==
    IF ~parsed_answer.some THEN Score(FALSE, FALSE, "parse_failure")
    ELSE IF is_refusal(Lower(Strip(parsed_answer.text))) THEN Score(FALSE, TRUE, "unknown")
    ELSE IF answer_type = "numeric"
         THEN Score(float_close(normalize_numeric(parsed_answer.text),
                                normalize_numeric(ground_truth)), FALSE, "numeric")
         ELSE Score(normalize_text(parsed_answer.text) = normalize_text(ground_truth),
                    FALSE, "text")

score_answer(parsed_answer, ground_truth, answer_type) ==
    IF ~parsed_answer.some THEN Score(FALSE, FALSE, "parse_failure")
    ELSE IF is_refusal(Lower(Strip(parsed_answer.text))) THEN Score(FALSE, TRUE, "unknown")
    ELSE IF answer_type = "numeric"
         THEN LET parsed_num == normalize_numeric(parsed_answer.text)
                  truth_num == normalize_numeric(ground_truth)
              IN  IF parsed_num.ok /\ truth_num.ok
                  THEN Score(float_close(parsed_num, truth_num), FALSE, "numeric")
                  ELSE Score(normalize_text(parsed_answer.text) = normalize_text(ground_truth),
                             FALSE, "text_fallback")
         ELSE Score(normalize_text(parsed_answer.text) = normalize_text(ground_truth),
                    FALSE, "text")

(***************************************************************************)
(* The runner process.  pc is "idle" (no process), "loop" (head of the     *)
(* main loop), "rate" (generate, before _wait_for_rate_limit), "request"   *)
(* (before the request is stamped and sent), "inflight" (request at the    *)
(* endpoint), "backoff" (in the except clause, before the sleep),          *)
(* "record" (raw_output known, record not built), "append" (record built,  *)
(* not written) or "done" (run_experiments returned).                      *)
(***************************************************************************)
NoRecord == <<>>

Running == {"loop", "rate", "request", "inflight", "backoff", "record", "append"}

PartialStores(c) ==
    LET g == GridSeq(c)
        line(k) == Dumps([question_id |-> g[k][1], prompt_name |-> g[k][2],
                          temperature |-> g[k][3], run_index |-> g[k][4],
                          model |-> ModelName,
                          prompt_text |-> build_prompt(g[k][2], g[k][1]),
                          raw_output |-> response_text([has_text |-> FALSE, text |-> <<>>])])
        pick(S) == FilterSeq([k \in 1..Len(g) |-> k], (1..Len(g)) \ S)
    IN  {[k \in 1..Len(pick(S)) |-> line(pick(S)[k])] :
            S \in {T \in SUBSET (1..Len(g)) :
                      \A a, b \in T : a # b => g[a] # g[b]}}

RunnerMemoryInit ==
    /\ pc = "idle"
    /\ completed = {}
    /\ work = <<>>
    /\ idx = 0
    /\ errors = 0
    /\ raw_output = <<>>
    /\ record = NoRecord
    /\ attempt = 0
    /\ last_error = NoneText
    /\ elapsed = min_interval
    /\ start_len = Len(store)
    /\ calls = 0
    /\ finished = 0
    /\ outcomes = <<>>
    /\ waits = <<>>
    /\ since_req = min_interval
    /\ last_gap = min_interval
    /\ killed = FALSE
    /\ waited = 0
    /\ init_store = store

(* Before the first invocation the store is empty or holds records of any  *)
(* part of the grid.                                                       *)
RunnerInit ==
    /\ cfg \in Configs
    /\ store \in PartialStores(cfg)
    /\ RunnerMemoryInit

FuncIdle ==
    /\ parsed_store = <<>>
    /\ in_text = Absent
    /\ in_truth = <<>>
    /\ in_type = "text"
    /\ out = Absent
    /\ called = FALSE

Init == RunnerInit /\ FuncIdle

Advance(d) ==
    /\ elapsed' = Sat(elapsed + d)
    /\ since_req' = Sat(since_req + d)

(* run_experiments up to the main loop: the resume index, the work list,   *)
(* the early return, the client's construction.                            *)
StartRun ==
    /\ pc \in {"idle", "done"}
    /\ completed' = get_completed_keys(store)
    /\ work' = build_work(cfg, get_completed_keys(store))
    /\ pc' = IF Len(build_work(cfg, get_completed_keys(store))) = 0 THEN "done" ELSE "loop"
    /\ idx' = 1
    /\ errors' = 0
    /\ raw_output' = <<>>
    /\ record' = NoRecord
    /\ attempt' = 0
    /\ last_error' = NoneText
    /\ elapsed' = min_interval
    /\ since_req' = min_interval
    /\ last_gap' = min_interval
    /\ start_len' = Len(store)
    /\ calls' = 0
    /\ finished' = 0
    /\ outcomes' = <<>>
    /\ waits' = <<>>
    /\ waited' = 0
    /\ UNCHANGED <<cfg, store, killed, init_store, parsed_store, funcVars>>

FinishRun_never_returns ==
    /\ pc = "loop"
    /\ idx > Len(work)
    /\ UNCHANGED vars

(* The for loop is exhausted: the final log line, return.                  *)
FinishRun ==
    /\ pc = "loop"
    /\ idx > Len(work)
    /\ pc' = "done"
    /\ UNCHANGED <<cfg, store, completed, work, idx, errors, raw_output, record,
                   attempt, last_error, elapsed, start_len, calls, finished,
                   outcomes, waits, since_req, last_gap, killed, waited, init_store, parsed_store, funcVars>>

(* generate raised: run_experiments' except clause.                        *)
on_error_uncounted(exc) ==
    /\ raw_output' = ErrorSentinel(exc)
    /\ errors' = errors
    /\ finished' = finished + 1
    /\ pc' = "record"

on_error(exc) ==
    /\ raw_output' = ErrorSentinel(exc)
    /\ errors' = errors + 1
    /\ finished' = finished + 1
    /\ pc' = "record"

(* The next work item: the prompt is built and client.generate is entered; *)
(* with retry_max = 0 its loop body never runs and it raises at once.      *)
BeginItem ==
    /\ pc = "loop"
    /\ idx <= Len(work)
    /\ calls' = calls + 1
    /\ last_error' = NoneText
    /\ outcomes' = <<>>
    /\ waits' = <<>>
    /\ record' = NoRecord
    /\ IF cfg.retry_max >= 1
       THEN /\ attempt' = 1
            /\ pc' = "rate"
            /\ UNCHANGED <<raw_output, errors, finished>>
       ELSE /\ attempt' = 0
            /\ on_error(RuntimeErrorText(cfg, NoneText))
    /\ UNCHANGED <<cfg, store, completed, work, idx, elapsed, start_len,
                   since_req, last_gap, killed, waited, init_store, parsed_store, funcVars>>

(* LLMClient._wait_for_rate_limit: time.sleep returns after at least the   *)
(* time asked for.                                                         *)
WaitForRateLimit ==
    /\ pc = "rate"
    /\ \E late \in 0..1 :
          Advance(IF rate_limit_wait(elapsed) > 0 THEN rate_limit_wait(elapsed) + late ELSE 0)
    /\ waited' = rate_limit_wait(elapsed)
    /\ pc' = "request"
    /\ UNCHANGED <<cfg, store, completed, work, idx, errors, raw_output, record,
                   attempt, last_error, start_len, calls, finished, outcomes, waits,
                   last_gap, killed, init_store, parsed_store, funcVars>>

(* self._last_call_time = time.time(), and the request leaves.             *)
SendRequest ==
    /\ pc = "request"
    /\ elapsed' = 0
    /\ last_gap' = since_req
    /\ since_req' = 0
    /\ pc' = "inflight"
    /\ UNCHANGED <<cfg, store, completed, work, idx, errors, raw_output, record,
                   attempt, last_error, start_len, calls, finished, outcomes, waits,
                   killed, waited, init_store, parsed_store, funcVars>>

(* The endpoint answers: return response.text or "".                       *)
RequestReturns ==
    /\ pc = "inflight"
    /\ \E r \in Responses, d \in 0..MaxLatency :
          /\ raw_output' = response_text(r)
          /\ outcomes' = Append(outcomes, [ok |-> TRUE, text |-> response_text(r)])
          /\ Advance(d)
    /\ finished' = finished + 1
    /\ waited' = 0
    /\ pc' = "record"
    /\ UNCHANGED <<cfg, store, completed, work, idx, errors, record,
                   attempt, last_error, start_len, calls, waits,
                   last_gap, killed, init_store, parsed_store, funcVars>>

(* The endpoint fails: the except clause records the error.                *)
RequestFails ==
    /\ pc = "inflight"
    /\ \E e \in Errors, d \in 0..MaxLatency :
          /\ last_error' = e
          /\ outcomes' = Append(outcomes, [ok |-> FALSE, text |-> e])
          /\ Advance(d)
    /\ waited' = 0
    /\ pc' = "backoff"
    /\ UNCHANGED <<cfg, store, completed, work, idx, errors, raw_output, record,
                   attempt, start_len, calls, finished, waits,
                   last_gap, killed, init_store, parsed_store, funcVars>>

(* time.sleep(wait) in the except clause, then the next attempt, or, the   *)
(* attempts exhausted, the RuntimeError that run_experiments catches.      *)
Backoff ==
    /\ pc = "backoff"
    /\ Advance(backoff_wait(attempt))
    /\ waits' = Append(waits, backoff_wait(attempt))
    /\ IF more_attempts(attempt, cfg)
       THEN /\ attempt' = attempt + 1
            /\ pc' = "rate"
            /\ UNCHANGED <<raw_output, errors, finished>>
       ELSE /\ attempt' = attempt
            /\ on_error(RuntimeErrorText(cfg, last_error))
    /\ UNCHANGED <<cfg, store, completed, work, idx, record, last_error,
                   start_len, calls, outcomes, last_gap, killed, waited, init_store, parsed_store, funcVars>>

(* The record is built in memory.                                          *)
BuildRecord ==
    /\ pc = "record"
    /\ record' = [question_id |-> work[idx][1], prompt_name |-> work[idx][2],
                  temperature |-> work[idx][3], run_index |-> work[idx][4],
                  model |-> ModelName,
                  prompt_text |-> build_prompt(work[idx][2], work[idx][1]),
                  raw_output |-> raw_output]
    /\ pc' = "append"
    /\ UNCHANGED <<cfg, store, completed, work, idx, errors, raw_output,
                   attempt, last_error, elapsed, start_len, calls, finished,
                   outcomes, waits, since_req, last_gap, killed, waited, init_store, parsed_store, funcVars>>

(* append_jsonl(output_path, record), and the loop moves on.               *)
AppendRecord ==
    /\ pc = "append"
    /\ store' = append_jsonl(store, record)
    /\ idx' = idx + 1
    /\ pc' = "loop"
    /\ UNCHANGED <<cfg, completed, work, errors, raw_output, record,
                   attempt, last_error, elapsed, start_len, calls, finished,
                   outcomes, waits, since_req, last_gap, killed, waited, init_store, parsed_store, funcVars>>

(* The process is terminated from outside: its memory is gone, the file    *)
(* stays as it is.                                                         *)
Kill ==
    /\ pc \in Running
    /\ killed' = TRUE
    /\ pc' = "idle"
    /\ completed' = {}
    /\ work' = <<>>
    /\ idx' = 0
    /\ errors' = 0
    /\ raw_output' = <<>>
    /\ record' = NoRecord
    /\ attempt' = 0
    /\ last_error' = NoneText
    /\ elapsed' = min_interval
    /\ since_req' = min_interval
    /\ last_gap' = min_interval
    /\ start_len' = Len(store)
    /\ calls' = 0
    /\ finished' = 0
    /\ outcomes' = <<>>
    /\ waits' = <<>>
    /\ waited' = 0
    /\ UNCHANGED <<cfg, store, init_store, parsed_store, funcVars>>

Next ==
    \/ StartRun
    \/ FinishRun
    \/ BeginItem
    \/ WaitForRateLimit
    \/ SendRequest
    \/ RequestReturns
    \/ RequestFails
    \/ Backoff
    \/ BuildRecord
    \/ AppendRecord
    \/ Kill

Spec == Init /\ [][Next]_vars

(***************************************************************************)
(* The runner left to run: no termination from outside.  The process is    *)
(* sequential, so each of its steps is taken once it is enabled and        *)
(* time.sleep returns; the endpoint answers or fails every request.        *)
(* Nothing obliges anyone to invoke run_experiments.                       *)
(***************************************************************************)
RunNext ==
    \/ StartRun
    \/ FinishRun
    \/ BeginItem
    \/ WaitForRateLimit
    \/ SendRequest
    \/ RequestReturns
    \/ RequestFails
    \/ Backoff
    \/ BuildRecord
    \/ AppendRecord

ProcessRuns ==
    /\ WF_vars(FinishRun)
    /\ WF_vars(BeginItem)
    /\ WF_vars(WaitForRateLimit)
    /\ WF_vars(SendRequest)
    /\ WF_vars(Backoff)
    /\ WF_vars(BuildRecord)
    /\ WF_vars(AppendRecord)

EndpointAnswers == WF_vars(RequestReturns \/ RequestFails)

SpecRun == Init /\ [][RunNext]_vars /\ ProcessRuns /\ EndpointAnswers

(***************************************************************************)
(* The parse stage on its own.  The raw file is any file of at most        *)
(* MaxRawLines generation records; the parsed file is what an earlier      *)
(* parse run over some raw file left (nothing, when there was none).       *)
(***************************************************************************)
RunnerQuiet ==
    /\ cfg = [dataset |-> <<1>>, prompts |-> <<1>>, temperatures |-> <<1>>,
              num_runs |-> MaxRawLines, retry_max |-> 1]
    /\ RunnerMemoryInit

RawTexts ==
    {<<>>,
     <<"A", "N", "S", "W", "E", "R", ":", " ", "1">>,
     ErrorSentinel(<<"e", "1">>)}

RawLines ==
    {Dumps([question_id |-> 1, prompt_name |-> 1, temperature |-> 1, run_index |-> r,
            model |-> ModelName, prompt_text |-> build_prompt(1, 1), raw_output |-> x]) :
        r \in 1..MaxRawLines, x \in RawTexts}

RawFiles == UNION {[1..n -> RawLines] : n \in 0..MaxRawLines}

ParseStageInit ==
    /\ store \in RawFiles
    /\ parsed_store \in {parse_all_outputs(f, <<>>) : f \in RawFiles}
    /\ RunnerQuiet
    /\ in_text = Absent
    /\ in_truth = <<>>
    /\ in_type = "text"
    /\ out = Absent
    /\ called = FALSE

ParseStage ==
    /\ parsed_store' = parse_all_outputs(store, parsed_store)
    /\ called' = TRUE
    /\ UNCHANGED <<runnerVars, in_text, in_truth, in_type, out>>

(* The runner appends a record between two parse runs.                     *)
RawGrows ==
    /\ Len(store) < MaxRawLines
    /\ \E l \in RawLines : store' = Append(store, l)
    /\ called' = FALSE
    /\ UNCHANGED <<cfg, pc, completed, work, idx, errors, raw_output, record,
                   attempt, last_error, elapsed, start_len, calls, finished,
                   outcomes, waits, since_req, last_gap, killed, waited, init_store,
                   parsed_store, in_text, in_truth, in_type, out>>

ParseStageNext == ParseStage \/ RawGrows

SpecParseStage == ParseStageInit /\ [][ParseStageNext]_vars

(***************************************************************************)
(* parse_answer on its own: the raw text is absent or any concatenation of *)
(* at most MaxSegments of the segments below.                              *)
(***************************************************************************)
AnswerSegments ==
    {AnswerMarker, Lower(AnswerMarker), <<" ">>, <<"\n">>, <<"1">>, <<"2">>,
     <<".">>, <<",">>, <<"$">>, <<"m">>}

AnswerTexts == {FlattenSeq(ss) : ss \in UNION {[1..n -> AnswerSegments] : n \in 0..MaxSegments}}

ParseAnswerInit ==
    /\ in_text \in {Absent} \cup {Some(t) : t \in AnswerTexts}
    /\ out = Absent
    /\ called = FALSE
    /\ in_truth = <<>>
    /\ in_type = "text"
    /\ parsed_store = <<>>
    /\ store = <<>>
    /\ RunnerQuiet

CallParseAnswer ==
    /\ ~called
    /\ out' = parse_answer(in_text)
    /\ called' = TRUE
    /\ UNCHANGED <<runnerVars, parsed_store, in_text, in_truth, in_type>>

ParseAnswerNext == CallParseAnswer

SpecParseAnswer == ParseAnswerInit /\ [][ParseAnswerNext]_vars

(***************************************************************************)
(* score_answer on its own: the parsed answer is absent or one of the      *)
(* cores below between at most MaxPad white space characters on each side. *)
(***************************************************************************)
Pads == UNION {[1..n -> {" ", "\t"}] : n \in 0..MaxPad}

AnswerCores ==
    {<<"u", "n", "k", "n", "o", "w", "n">>,
     <<"U", "n", "k", "n", "o", "w", "n">>,
     <<"U", "N", "K", "N", "O", "W", "N">>,
     <<"i", " ", "d", "o", "n", "'", "t", " ", "k", "n", "o", "w">>,
     <<"I", " ", "d", "o", "n", "'", "t", " ", "k", "n", "o", "w">>,
     <<"c", "a", "n", "n", "o", "t", " ", "d", "e", "t", "e", "r", "m", "i", "n", "e">>,
     <<"u", "n", "k", "n", "o", "w", "n", " ", "x">>,
     <<"u", "n", "k", "n", "o", "w", "n", "s">>,
     <<"4", "2">>,
     <<"4", "2", ".", "0">>,
     <<"4", "1", ".", "9", "9">>,
     <<"3", "/", "4">>,
     <<"1", "/", "0">>,
     <<"$", "5">>,
     <<"y", "e", "s">>,
     <<"Y", "e", "s">>,
     <<"a", "b", "c">>,
     <<>>}

GroundTruths == {<<"4", "2">>, <<"y", "e", "s">>, <<"u", "n", "k", "n", "o", "w", "n">>, <<"0", ".", "7", "5">>, <<"5">>}

ScoreInit ==
    /\ in_text \in {Absent} \cup {Some(a \o c \o b) : a \in Pads, c \in AnswerCores, b \in Pads}
    /\ in_truth \in GroundTruths
    /\ in_type \in {"numeric", "text"}
    /\ out = Absent
    /\ called = FALSE
    /\ parsed_store = <<>>
    /\ store = <<>>
    /\ RunnerQuiet

CallScoreAnswer ==
    /\ ~called
    /\ out' = score_answer(in_text, in_truth, in_type)
    /\ called' = TRUE
    /\ UNCHANGED <<runnerVars, parsed_store, in_text, in_truth, in_type>>

ScoreNext == CallScoreAnswer

SpecScore == ScoreInit /\ [][ScoreNext]_vars

(***************************************************************************)
(* Properties of the runner and the client.                                *)
(***************************************************************************)
KeysIn(file) == {<<file[k][1], file[k][2], file[k][3], file[k][4]>> : k \in 1..Len(file)}

GridKeys(c) ==
    {<<q, p, t, r>> : q \in Range(c.dataset), p \in Range(c.prompts),
                      t \in Range(c.temperatures), r \in 1..c.num_runs}

StartStore == SubSeq(store, 1, start_len)

Appended == SubSeq(store, start_len + 1, Len(store))

SentinelCount(file) == Cardinality({k \in 1..Len(file) : IsSentinel(file[k][7])})

(* C1: the resume index of an invocation is exactly the set of keys of the *)
(* records the store held when the invocation started, whatever partial    *)
(* store that was, and when the invocation has finished the keys of the    *)
(* store are exactly the Cartesian product questions x prompts x           *)
(* temperatures x 1..num_runs.                                             *)
C1_ResumeCorrect ==
    /\ pc \in Running \cup {"done"} => completed = KeysIn(StartStore)
    /\ pc = "done" => KeysIn(store) = GridKeys(cfg)

C1_Witness ==
    /\ pc = "done"
    /\ start_len > 0
    /\ calls > 0
    /\ ~killed
    /\ completed = KeysIn(init_store)

(* C2: starting from an empty store, the store never holds two records     *)
(* with the same (question_id, prompt_name, temperature, run_index) key.   *)
C2_ExactlyOnce ==
    init_store = <<>> =>
        \A a, b \in 1..Len(store) :
            a # b => KeysIn(<<store[a]>>) # KeysIn(<<store[b]>>)

(* C3: when an invocation has finished, the number of generate calls it    *)
(* made is the number of grid keys that were absent from the store when it *)
(* started, and every call was for such a key.                             *)
C3_WorkOnlyMissing ==
    pc = "done" =>
        /\ calls = Cardinality(GridKeys(cfg) \ KeysIn(StartStore))
        /\ \A k \in 1..Len(work) : work[k] \in GridKeys(cfg) \ KeysIn(StartStore)

(* C4: a generate call that raises does not stop the run: one record with  *)
(* the error sentinel is appended for the item, the error counter goes up  *)
(* by one and the loop goes on; at the head of the loop and at the end the *)
(* error counter is the number of sentinel records appended by this run,   *)
(* and at the end every work item of the run has its record.               *)
C4_PartialFailure ==
    /\ pc \in {"loop", "done"} => errors = SentinelCount(Appended)
    /\ pc \in {"record", "append"} =>
          errors = SentinelCount(Appended) + (IF IsSentinel(raw_output) THEN 1 ELSE 0)
    /\ pc = "done" =>
          /\ Len(Appended) = Len(work)
          /\ \A k \in 1..Len(work) : KeysIn(<<Appended[k]>>) = {work[k]}

C4_Witness ==
    /\ pc = "done"
    /\ errors = 1
    /\ Len(Appended) >= 2
    /\ IsSentinel(Appended[1][7])
    /\ ~IsSentinel(Appended[2][7])

(* C5: at whatever point the process is killed, the store holds only whole *)
(* records, the records appended by the run are those of the work items    *)
(* whose generate call ended, in order, but for at most the one in hand,   *)
(* and a run that finishes (after a restart, too) leaves the full          *)
(* Cartesian product in the store.                                         *)
C5_CrashSafe ==
    /\ \A k \in 1..Len(store) : Len(store[k]) = 7 /\ Dumps(Loads(store[k])) = store[k]
    /\ pc \in Running =>
          /\ finished - Len(Appended) \in {0, 1}
          /\ Len(Appended) <= Len(work)
          /\ \A k \in 1..Len(Appended) : KeysIn(<<Appended[k]>>) = {work[k]}
          /\ Len(store) >= Len(init_store)
    /\ killed /\ pc = "done" => GridKeys(cfg) \subseteq KeysIn(store)

C5_Witness ==
    /\ killed
    /\ pc = "done"
    /\ calls > 0
    /\ start_len > Len(init_store)

(* C6: one generate call sends at most retry_max requests; no request      *)
(* follows one that succeeded and the call returns that request's text;    *)
(* when retry_max requests have failed the call raises an error that names *)
(* retry_max and the last underlying error, and returns nothing.           *)
Requests == Len(outcomes) + (IF pc = "inflight" THEN 1 ELSE 0)

GenerateEnded == pc \in {"record", "append"}

C6_BoundedRetry ==
    /\ Requests <= cfg.retry_max
    /\ \A k \in 1..Len(outcomes) : outcomes[k].ok => k = Len(outcomes) /\ pc # "inflight"
    /\ GenerateEnded /\ outcomes # <<>> /\ outcomes[Len(outcomes)].ok =>
          raw_output = outcomes[Len(outcomes)].text
    /\ GenerateEnded /\ (outcomes = <<>> \/ ~outcomes[Len(outcomes)].ok) =>
          /\ Len(outcomes) = cfg.retry_max
          /\ raw_output = ErrorSentinel(RuntimeErrorText(cfg,
                 IF outcomes = <<>> THEN NoneText ELSE outcomes[Len(outcomes)].text))
    /\ pc \in {"rate", "request", "inflight", "backoff"} =>
          \A k \in 1..Len(outcomes) : ~outcomes[k].ok

C6_Witness ==
    /\ pc = "record"
    /\ Len(outcomes) = 2
    /\ ~outcomes[1].ok
    /\ ~outcomes[2].ok
    /\ outcomes[1].text # outcomes[2].text
    /\ IsSentinel(raw_output)

(* C7: two consecutive requests of one client are at least the minimum     *)
(* interval apart, across generate calls and across the retries of one     *)
(* call; a request that would come too early is sent only after the wait.  *)
C7_RateLimit ==
    /\ last_gap >= min_interval
    /\ pc = "request" => since_req >= min_interval

C7_Witness ==
    /\ pc = "inflight"
    /\ waited > 0
    /\ Len(outcomes) >= 1
    /\ last_gap >= min_interval

(***************************************************************************)
(* Properties of the parse stage, the extractor and the scorer.            *)
(***************************************************************************)

(* C8: after a run of the parse stage the parsed file holds exactly one    *)
(* parsed record per generation record of the raw file, in the same order, *)
(* whatever the parsed file held before.                                   *)
C8_FullRebuild ==
    called =>
        /\ Len(parsed_store) = Len(store)
        /\ \A k \in 1..Len(store) :
              /\ SubSeq(parsed_store[k], 1, 6) = SubSeq(store[k], 1, 5) \o <<store[k][7]>>
              /\ parsed_store[k][7] = parse_answer(Some(store[k][7]))
              /\ parsed_store[k][8] = parse_confidence(Some(store[k][7]))
              /\ parsed_store[k][9] = parsed_store[k][7].some

(* C9: score_answer gives is_unknown only for a parsed answer that,        *)
(* trimmed and lowercased, is one of the refusal phrases, and then it      *)
(* gives is_correct false and match_type unknown, whatever the ground      *)
(* truth and the answer type.                                              *)
C9_UnknownInvariant ==
    called /\ out.is_unknown =>
        /\ in_text.some
        /\ Lower(Strip(in_text.text)) \in RefusalPhrases
        /\ ~out.is_correct
        /\ out.match_type = "unknown"

C9_Witness ==
    /\ called
    /\ out.is_unknown
    /\ in_type = "text"
    /\ in_text.text \notin RefusalPhrases
    /\ normalize_text(in_text.text) = normalize_text(in_truth)

(* C10: parse_answer gives absent for a text without the marker, and       *)
(* otherwise the normalization of the text that follows the last           *)
(* occurrence of the marker (on its line, after white space), absent when  *)
(* that is empty.                                                          *)
MarkerPositions(t) == {p \in 1..Len(t) : LiteralAt(t, p, AnswerMarker)}

LastMarker(t) == CHOOSE p \in MarkerPositions(t) : \A q \in MarkerPositions(t) : q <= p

TextAfterLastMarker(t) ==
    LET g == AnswerGroupStart(t, LastMarker(t) + Len(AnswerMarker))
    IN  IF g = 0 THEN <<>> ELSE SubSeq(t, g, GroupEnd(t, g))

C10_LastMarkerWins ==
    called =>
        out = IF ~in_text.some \/ MarkerPositions(in_text.text) = {} THEN Absent
              ELSE normalize_answer(TextAfterLastMarker(in_text.text))

(* C11: score_answer always returns a result, and its match_type is        *)
(* parse_failure exactly for an absent parsed answer; otherwise unknown    *)
(* exactly for a refusal phrase; otherwise, for the numeric answer type,   *)
(* numeric exactly when both the parsed answer and the ground truth parse  *)
(* as numbers and text_fallback, with normalized text equality, exactly    *)
(* when either does not; otherwise text.  A parse failure is not correct.  *)
MatchTypes == {"parse_failure", "unknown", "numeric", "text_fallback", "text"}

ParsesAsNumber(t) == normalize_numeric(t).ok

C11_MatchTypeDecision ==
    called =>
        LET refusal == in_text.some /\ Lower(Strip(in_text.text)) \in RefusalPhrases
            both == ParsesAsNumber(in_text.text) /\ ParsesAsNumber(in_truth)
        IN  /\ out.match_type \in MatchTypes
            /\ out.is_correct \in BOOLEAN
            /\ out.match_type = "parse_failure" <=> ~in_text.some
            /\ out.match_type = "parse_failure" => ~out.is_correct
            /\ in_text.some => (out.match_type = "unknown" <=> refusal)
            /\ in_text.some /\ ~refusal /\ in_type = "numeric" =>
                   /\ out.match_type = "numeric" <=> both
                   /\ out.match_type = "text_fallback" <=> ~both
                   /\ ~both =>
                          (out.is_correct <=>
                              normalize_text(in_text.text) = normalize_text(in_truth))
            /\ in_text.some /\ ~refusal /\ in_type # "numeric" => out.match_type = "text"

C11_Witness ==
    /\ called
    /\ in_type = "numeric"
    /\ ParsesAsNumber(in_truth)
    /\ ~ParsesAsNumber(in_text.text)
    /\ out.match_type = "text_fallback"
    /\ ~out.is_correct

(* C12: the wait after the k-th failed attempt of a generate call is the   *)
(* backoff base times 2^(k-1), and every wait is followed by another       *)
(* request: a call that has ended after n attempts has waited n - 1 times. *)
C12_BackoffBetweenAttempts ==
    /\ \A k \in 1..Len(waits) : waits[k] = BackoffTicks * Pow2(k - 1)
    /\ Len(waits) <= Len(outcomes)
    /\ GenerateEnded /\ outcomes # <<>> => Len(waits) = Len(outcomes) - 1

(* C13: with an endpoint that answers or fails every request, every        *)
(* invocation of run_experiments returns; no work item stays in progress   *)
(* forever; the loop moves through the work list one item at a time and    *)
(* never back; and at the return every position of the grid was skipped    *)
(* (its key in the resume index) or has its record, a response or the      *)
(* error sentinel, written by this invocation.                             *)
InProgress == {"rate", "request", "inflight", "backoff", "record", "append"}

ItemsSettled ==
    /\ idx = Len(work) + 1
    /\ finished = Len(work)
    /\ Len(Appended) = Len(work)
    /\ \A k \in 1..Len(work) : <<Appended[k][1], Appended[k][2], Appended[k][3], Appended[k][4]>> = work[k]
    /\ \A j \in 1..Len(GridSeq(cfg)) :
          GridSeq(cfg)[j] \in completed \/ GridSeq(cfg)[j] \in KeysIn(Appended)

LoopMovesOn == pc \in Running /\ pc' \in Running => idx' \in {idx, idx + 1}

C13_Terminates ==
    /\ pc \in Running ~> pc = "done"
    /\ \A i \in 1..MaxGrid : (pc \in InProgress /\ idx = i) ~> (pc = "loop" /\ idx = i + 1)
    /\ [][LoopMovesOn]_vars
    /\ [](pc = "done" => ItemsSettled)

C13_Witness ==
    /\ pc = "done"
    /\ Len(work) = 2
    /\ Len(Appended) = 2
    /\ errors = 1
    /\ SentinelCount(Appended) = 1

(* C14: the raw store only grows at its end: every step leaves the        *)
(* records it holds unchanged and in place, so what the store held at any  *)
(* earlier moment, its first content included, is a prefix of what it      *)
(* holds later; a step that writes adds one record, that of the work item  *)
(* in progress; and no record is written for a key of the resume index,    *)
(* i.e. for a skipped item.                                                *)
IsPrefix(a, b) == Len(a) <= Len(b) /\ SubSeq(b, 1, Len(a)) = a

AppendOnlyStep ==
    /\ IsPrefix(store, store')
    /\ IsPrefix(init_store, store')
    /\ store' # store =>
          /\ Len(store') = Len(store) + 1
          /\ pc \in Running
          /\ RecKey(Loads(store'[Len(store')])) = work[idx]
          /\ RecKey(Loads(store'[Len(store')])) \notin completed
    /\ pc' = "done" => \A k \in 1..Len(Appended') : RecKey(Loads(Appended'[k])) \notin completed'

C14_AppendOnly == [][AppendOnlyStep]_vars

C14_Witness ==
    /\ pc = "done"
    /\ init_store # <<>>
    /\ completed # {}
    /\ Len(store) > Len(init_store)
    /\ killed

(* C15: a record holding the error sentinel counts as completed: in every  *)
(* invocation that starts with such a record in the store its key is in    *)
(* the resume index and not in the work list, so the model is not called   *)
(* for it and the invocation writes no record with that key; the sentinel  *)
(* record stays where it is.                                               *)
SentinelAtStart == {k \in 1..start_len : IsSentinel(Loads(store[k]).raw_output)}

C15_ErroredCountAsCompleted ==
    pc \in Running \cup {"done"} =>
        \A k \in SentinelAtStart :
            /\ RecKey(Loads(store[k])) \in completed
            /\ \A j \in 1..Len(work) : work[j] # RecKey(Loads(store[k]))
            /\ \A j \in 1..Len(Appended) : RecKey(Loads(Appended[j])) # RecKey(Loads(store[k]))

C15_Witness ==
    /\ pc = "done"
    /\ SentinelAtStart # {}
    /\ Len(Appended) >= 1
    /\ ~IsSentinel(Loads(Appended[1]).raw_output)

====
